---- MODULE Spec2Model ----
(***************************************************************************)
(* Model of the record-matching / enrichment engine of lost_years:         *)
(* lost_years_ssa (ssa.py), lost_years_who (who.py), lost_years_hld        *)
(* (hld.py) and closest (utils.py).                                        *)
(*                                                                         *)
(* A behaviour follows one process that uses one source (`src`): the three *)
(* caches are independent class attributes, so calls to different sources  *)
(* never interact.  A call is modelled in the steps of its code: the       *)
(* column check, the lazy load of the cache, the preparation of the sex    *)
(* column, the per-row loop and the final join.                            *)
(*                                                                         *)
(* Encodings.  A table is [cols, idx, rows]: the column names in order,    *)
(* the row labels in order and the rows as functions from column name to   *)
(* value.  NaN / None is the number NaN in a numeric column and the string *)
(* NoStr in a string column.  The Python integer 1 in a sex column is the  *)
(* token "int(1)" (IsStr tells it from a string, Str is Python's str()).   *)
(* lower(), upper() and substring containment are tabulated on the finite  *)
(* set of strings the model uses.                                          *)
(*                                                                         *)
(* stdout and log hold what the current call printed and logged, read      *)
(* tells whether it read the reference resource, and hist keeps the first  *)
(* call of the process and its outcome.  call and ret are the arguments    *)
(* and the result of one call of a pure function: closest, fixup_columns   *)
(* of utils.py, convert_agegroup of who.py (SpecUtils).                    *)
(* tpc and inits belong to two callers that load one source at the same   *)
(* time (SpecThreads); files, upd and master to the data updaters of      *)
(* data/ssa/update_ssa_data.py and data/update_all_data.py (SpecData).     *)
(***************************************************************************)
EXTENDS Integers, Sequences, FiniteSets, TLC

VARIABLES src, resource, cache, pc, df, df_in, df_temp, cols, df_cols, i,
          out_list, index_list, out_df, result,
          stdout, log, read, hist, call, ret,
          tpc, inits, files, upd, master

vars == <<src, resource, cache, pc, df, df_in, df_temp, cols, df_cols, i,
          out_list, index_list, out_df, result,
          stdout, log, read, hist, call, ret,
          tpc, inits, files, upd, master>>

(* ----------------------------- bounds ---------------------------------- *)
MaxRef == 2      \* rows in a reference resource
MaxRows == 2     \* rows in a query table

(* ------------------------- generic helpers ----------------------------- *)
Range(s) == {s[k] : k \in 1..Len(s)}

Abs(x) == IF x < 0 THEN -x ELSE x

RECURSIVE SeqsUpTo(_, _)
SeqsUpTo(S, n) ==
    IF n = 0 THEN {<<>>}
    ELSE LET shorter == SeqsUpTo(S, n - 1)
         IN  shorter \cup {Append(s, x) : s \in {t \in shorter : Len(t) = n - 1}, x \in S}

RECURSIVE Flatten(_)
Flatten(ss) == IF ss = <<>> THEN <<>> ELSE Head(ss) \o Flatten(Tail(ss))

NaN == 0 - 1
NoStr == ""
None == [loaded |-> FALSE, normalized |-> FALSE, rows |-> <<>>]

(* ------------------------- Python strings ------------------------------ *)
IsStr(v) == v # "int(1)"

Str(v) == IF v = "int(1)" THEN "1" ELSE v

Lower(s) ==
    CASE s = "M" -> "m"
      [] s = "Male" -> "male"
      [] s = "F" -> "f"
      [] s = "Female" -> "female"
      [] s = "MLE" -> "mle"
      [] s = "FMLE" -> "fmle"
      [] s = "BTSX" -> "btsx"
      [] s = "US" -> "us"
      [] s = "USA" -> "usa"
      [] s = "ZZZ" -> "zzz"
      [] s = "U.A" -> "u.a"
      [] OTHER -> s

Upper(s) ==
    CASE s = "m" -> "M"
      [] s = "male" -> "MALE"
      [] s = "Male" -> "MALE"
      [] s = "f" -> "F"
      [] s = "Female" -> "FEMALE"
      [] s = "us" -> "US"
      [] s = "usa" -> "USA"
      [] OTHER -> s

Substrings(s) ==
    CASE s = "USA" -> {"", "U", "S", "A", "US", "SA", "USA"}
      [] s = "US" -> {"", "U", "S", "US"}
      [] s = "ZZZ" -> {"", "Z", "ZZ", "ZZZ"}
      [] OTHER -> {"", s}

\* the strings of the model in which re.search finds the pattern pat: a
\* pattern without special characters is found where it is a substring;
\* in "U.A" the dot stands for any character
Searched(pat) ==
    IF pat = "U.A" THEN {"USA", "U.A"}
    ELSE {h \in {"US", "USA", "ZZZ", "U.A"} : pat \in Substrings(h)}

\* Series.str.contains(needle): a regular-expression search (regex=True)
Contains(hay, needle) == hay \in Searched(needle)

(* ------------------------------ utils.py ------------------------------- *)
RECURSIVE unique(_)
unique(s) ==
    IF s = <<>> THEN <<>>
    ELSE LET n == Len(s)
             u == unique(SubSeq(s, 1, n - 1))
         IN  IF s[n] \in Range(u) THEN u ELSE Append(u, s[n])

argmin(lst, c) ==
    CHOOSE k \in 1..Len(lst) :
        /\ \A j \in 1..Len(lst) : Abs(lst[k] - c) <= Abs(lst[j] - c)
        /\ \A j \in 1..(k - 1) : Abs(lst[j] - c) > Abs(lst[k] - c)

\* closest that ignores the distances
closest_head(lst, c) == lst[1]

\* closest that breaks a tie toward the last value
closest_last(lst, c) ==
    lst[CHOOSE k \in 1..Len(lst) :
            /\ \A j \in 1..Len(lst) : Abs(lst[k] - c) <= Abs(lst[j] - c)
            /\ \A j \in (k + 1)..Len(lst) : Abs(lst[j] - c) > Abs(lst[k] - c)]

closest(lst, c) == lst[argmin(lst, c)]

Column(sdf, c) == [k \in 1..Len(sdf) |-> sdf[k][c]]

Filter(sdf, c, v) ==
    LET keep(r) == r[c] = v IN SelectSeq(sdf, keep)

(* --------------------- reference resources ----------------------------- *)
(* A resource is the file a loader reads: kind "ok" with its rows in file  *)
(* order, "missing" (no file) or "corrupt" (a file read_csv cannot parse). *)
(* Life expectancies are set by the row's position, so that any two rows   *)
(* of a table can be told apart in the output.                             *)
Sources == {"ssa", "who", "hld"}

RefAges == {1, 5}
RefYears == {2018, 2020}
WhoYears == {2020}
RefCountries == {"US", "USA"}
AgeGroups == {"AGELT1", "AGE5-9"}

SSAKeys == [age : RefAges, year : RefYears]
\* the rows of the two sexes, and one row for both sexes together
WHOKeys ==
    [COUNTRY : RefCountries, YEAR : WhoYears, SEX : {"MLE", "FMLE"}, AGEGROUP : AgeGroups]
        \cup [COUNTRY : {"US"}, YEAR : WhoYears, SEX : {"BTSX"}, AGEGROUP : {"AGELT1"}]
HLDKeys == [Country : RefCountries, Year1 : WhoYears, Sex : {1, 2}, Age : RefAges]

SSAFile(ks) ==
    [k \in 1..Len(ks) |->
        [age |-> ks[k].age, year |-> ks[k].year,
         male_life_expectancy |-> 49 + k, female_life_expectancy |-> 54 + k]]

WHOFile(ks) ==
    [k \in 1..Len(ks) |->
        [COUNTRY |-> ks[k].COUNTRY, YEAR |-> ks[k].YEAR, SEX |-> ks[k].SEX,
         AGEGROUP |-> ks[k].AGEGROUP, Display |-> 69 + k, GHO |-> "LIFE_0000000035"]]

HLDFile(ks) ==
    [k \in 1..Len(ks) |->
        [Country |-> ks[k].Country, Year1 |-> ks[k].Year1, Sex |-> ks[k].Sex,
         Age |-> ks[k].Age, ex |-> 69 + k]]

Files(s) ==
    CASE s = "ssa" -> {SSAFile(ks) : ks \in SeqsUpTo(SSAKeys, MaxRef)}
      [] s = "who" -> {WHOFile(ks) : ks \in SeqsUpTo(WHOKeys, MaxRef)}
      [] s = "hld" -> {HLDFile(ks) : ks \in SeqsUpTo(HLDKeys, MaxRef)}

Resources(s) ==
    {[kind |-> "ok", rows |-> f] : f \in Files(s)}
        \cup {[kind |-> "missing", rows |-> <<>>], [kind |-> "corrupt", rows |-> <<>>]}

(* ------------------------------ loaders -------------------------------- *)
(* ssa.py line 45: read_csv keeps the four SSA_COLS as they are.           *)
SSA_load(rows) == [loaded |-> TRUE, normalized |-> TRUE, rows |-> rows]

\* one decimal digit as a character, the characters `\d` matches, and int()
\* of a run of them
DigitChar(n) == SubSeq("0123456789", n + 1, n + 1)
DigitChars == {DigitChar(n) : n \in 0..9}
DigitValue(c) == CHOOSE n \in 0..9 : DigitChar(n) = c

RECURSIVE py_int(_)
py_int(s) ==
    IF Len(s) = 0 THEN 0
    ELSE 10 * py_int(SubSeq(s, 1, Len(s) - 1)) + DigitValue(SubSeq(s, Len(s), Len(s)))

\* the last position of the run of digits of s that starts at position k
\* (k - 1 when there is no digit at k)
RECURSIVE DigitsEnd(_, _)
DigitsEnd(s, k) ==
    IF k <= Len(s) /\ SubSeq(s, k, k) \in DigitChars THEN DigitsEnd(s, k + 1) ELSE k - 1

\* no match of the pattern (group 1 of a match is never empty)
NoMatch == ""

\* who.py 100: re.match('AGE(\d+)\-(\d+)', ag), the pattern matched at the
\* start of ag; what follows the match is not looked at.  The value is
\* group 1 of the match.
re_match(ag) ==
    LET a == DigitsEnd(ag, 4)
    IN  IF /\ Len(ag) >= 3 /\ SubSeq(ag, 1, 3) = "AGE"
           /\ a >= 4
           /\ a + 1 <= Len(ag) /\ SubSeq(ag, a + 1, a + 1) = "-"
           /\ DigitsEnd(ag, a + 2) >= a + 2
        THEN SubSeq(ag, 4, a) ELSE NoMatch

\* who.py 92-104
convert_agegroup(ag) ==
    CASE ag = "AGE100+" -> 100
      [] ag = "AGE85PLUS" -> 85
      [] ag = "AGELT1" -> 1
      [] OTHER -> IF re_match(ag) # NoMatch THEN py_int(re_match(ag)) ELSE 0

(* who.py lines 50-64: keep the life-expectancy indicator, drop its column,*)
(* rename, drop duplicate rows, convert the age group and the year.        *)
WHO_load(rows) ==
    LET isLife(r) == r.GHO = "LIFE_0000000035"
        kept == SelectSeq(rows, isLife)
        renamed == [k \in 1..Len(kept) |->
                      [country |-> kept[k].COUNTRY, year |-> kept[k].YEAR,
                       sex |-> kept[k].SEX, age |-> kept[k].AGEGROUP,
                       life_expectancy |-> kept[k].Display]]
        dedup == unique(renamed)
    IN  [loaded |-> TRUE, normalized |-> TRUE,
         rows |-> [k \in 1..Len(dedup) |->
                     [dedup[k] EXCEPT !.age = convert_agegroup(dedup[k].age)]]]

(* hld.py lines 73-79: the table as read, assigned to the cache before it  *)
(* is checked or normalized.                                               *)
HLD_read(rows) == [loaded |-> TRUE, normalized |-> FALSE, rows |-> rows]

(* hld.py lines 82-106: rename, map the sex codes 1/2 to M/F, drop the     *)
(* rows left with a missing value.                                         *)
HLD_normalize(rows) ==
    LET renamed == [k \in 1..Len(rows) |->
                      [country |-> rows[k].Country, year |-> rows[k].Year1,
                       sex |-> CASE rows[k].Sex = 1 -> "M"
                                 [] rows[k].Sex = 2 -> "F"
                                 [] OTHER -> NoStr,
                       age |-> rows[k].Age, life_expectancy |-> rows[k].ex]]
        valid(r) == r.sex # NoStr
    IN  [loaded |-> TRUE, normalized |-> TRUE, rows |-> SelectSeq(renamed, valid)]

(* --------------------------- query tables ------------------------------ *)
Keys == {"age", "sex", "year", "country"}
ColOrder == <<"age", "sex", "year", "country">>

DefaultNames == [age |-> "age", sex |-> "sex", year |-> "year", country |-> "country"]
CustomNames ==
    [age |-> "person_age", sex |-> "gender", year |-> "birth_year", country |-> "nation"]

\* cols=None and an explicit mapping, as the second argument of the call
NoMapping == [none |-> TRUE, map |-> DefaultNames]
Mapping(m) == [none |-> FALSE, map |-> m]

EmptyTable == [cols |-> <<>>, idx |-> <<>>, rows |-> <<>>]

\* the table with the columns of `names` (without those of `dropped`), the
\* row labels `labels` and the values `vals` (records over Keys)
MkTable(names, dropped, labels, vals) ==
    LET keep(k) == k \notin dropped
        ks == SelectSeq(ColOrder, keep)
        cs == [n \in 1..Len(ks) |-> names[ks[n]]]
        key(c) == CHOOSE k \in Keys : names[k] = c
    IN  [cols |-> cs, idx |-> labels,
         rows |-> [n \in 1..Len(vals) |-> [c \in Range(cs) |-> vals[n][key(c)]]]]

QCountries == {"us", "ZZZ"}
QAges == {2, 3}
QYears == {2021}
MaleTokens == {"M", "m", "Male", "male", "1"}
SexTokens == MaleTokens \cup {"F", "0", "Female", "int(1)"}

\* rows of the tables of several rows, and of the tables of one row
BatchRows == [age : {3}, sex : {"M"}, year : QYears, country : QCountries]
ProbeRow == [age |-> 3, sex |-> "M", year |-> 2021, country |-> "us"]

\* a query country with a character that is special in a regular expression
QPatterns == {"U.A"}

SingleRows ==
    [age : QAges, sex : SexTokens, year : QYears, country : QCountries]
        \cup {[ProbeRow EXCEPT !.country = p] : p \in QPatterns}

\* the labels of a table of n rows: a RangeIndex, or one label repeated
Labels(n) == {[k \in 1..n |-> k - 1], [k \in 1..n |-> 0]}

BatchTables ==
    UNION {{MkTable(DefaultNames, {}, l, v) : l \in Labels(Len(v))} :
              v \in SeqsUpTo(BatchRows, MaxRows)}
SingleTables == {MkTable(DefaultNames, {}, <<0>>, <<v>>) : v \in SingleRows}

LayoutTables ==
    {MkTable(n, d, [k \in 1..Len(v) |-> k - 1], v) :
        n \in {DefaultNames, CustomNames},
        d \in {{}} \cup {{k} : k \in Keys},
        v \in {<<>>, <<ProbeRow>>}}

\* two rows under one label that differ in the sex
MixedTable ==
    MkTable(DefaultNames, {}, <<0, 0>>,
            <<ProbeRow, [ProbeRow EXCEPT !.sex = "F"]>>)

Inputs ==
    ((BatchTables \cup SingleTables \cup {EmptyTable, MixedTable}) \X {NoMapping})
        \cup (LayoutTables \X {NoMapping, Mapping(CustomNames)})

(* --------------------------- column check ------------------------------ *)
\* a column check that forgets the year column
CheckOrder_NoYear(s) ==
    IF s = "ssa" THEN <<"age", "sex">> ELSE <<"country", "age", "sex">>

\* ssa.py 36-42, who.py 41-47, hld.py 53-59
CheckOrder(s) ==
    IF s = "ssa" THEN <<"age", "sex", "year">> ELSE <<"country", "age", "sex", "year">>

tcol(m, col) == IF m.none THEN col ELSE m.map[col]

\* the mapped names that are not columns of t, in the order they are checked
MissingCols(s, t, m) ==
    LET absent(col) == tcol(m, col) \notin Range(t.cols)
    IN  SelectSeq(CheckOrder(s), absent)

(* ------------------------- per-row matching ---------------------------- *)
\* `sdf = sdf[sdf[c] == closest(sdf[c].unique(), v)]` (ssa.py 56, who.py 76,
\* hld.py 172); the caller has checked that sdf is not empty
nearest(sdf, c, v) == Filter(sdf, c, closest(unique(Column(sdf, c)), v))

Matched(rows) == [exc |-> "", rows |-> rows]
Failed(e) == [exc |-> e, rows |-> <<>>]

\* the two life-expectancy columns taken for each other
ssa_ecol_swapped(sex) ==
    IF Lower(sex) \in {"m", "male"} THEN "female_life_expectancy"
    ELSE "male_life_expectancy"

\* ssa.py 50-53
ssa_ecol(sex) ==
    IF Lower(sex) \in {"m", "male"} THEN "male_life_expectancy"
    ELSE "female_life_expectancy"

\* ssa.py 50-60: one iteration of the loop, for the query row r
match_ssa(ref, r, dc) ==
    IF ~IsStr(r[dc.sex]) THEN Failed("AttributeError")
    ELSE IF Len(ref) = 0 THEN Failed("ValueError")
    ELSE LET ecol == ssa_ecol(r[dc.sex])
             byAge == nearest(ref, "age", r[dc.age])
             sdf == nearest(byAge, "year", r[dc.year])
         IN  Matched([k \in 1..Len(sdf) |->
                        [ssa_age |-> sdf[k].age, ssa_year |-> sdf[k].year,
                         ssa_life_expectancy |-> sdf[k][ecol]]])

\* who.py 68
who_sex(c) == IF Lower(c) \in {"m", "male", "mle"} THEN "MLE" ELSE "FMLE"

\* who.py 75: the dtype test; an age column without rows is not numeric
who_numeric(ref, c) == c = "year" \/ (c = "age" /\ Len(ref) > 0)

\* who.py 74-78: the key loop over the remaining keys ks
RECURSIVE who_filter(_, _, _, _, _)
who_filter(ref, sdf, ks, r, dc) ==
    IF Len(ks) = 0 THEN [exc |-> "", rows |-> sdf]
    ELSE LET c == Head(ks)
         IN  IF dc[c] \notin DOMAIN r THEN Failed("KeyError")
             ELSE IF who_numeric(ref, c)
                  THEN IF Len(sdf) = 0 THEN Failed("ValueError")
                       ELSE who_filter(ref, nearest(sdf, c, r[dc[c]]), Tail(ks), r, dc)
             ELSE IF c = "age" THEN Failed("AttributeError")
             ELSE LET same(x) == Lower(x[c]) = Lower(r[dc[c]])
                  IN  who_filter(ref, SelectSeq(sdf, same), Tail(ks), r, dc)

\* who.py 73-80: one iteration of the loop, for the row r of the prepared df
match_who(ref, r, dc) ==
    LET f == who_filter(ref, ref, <<"country", "age", "sex", "year">>, r, dc)
    IN  IF f.exc # "" THEN f
        ELSE Matched([k \in 1..Len(f.rows) |->
                        [who_country |-> f.rows[k].country, who_year |-> f.rows[k].year,
                         who_sex |-> f.rows[k].sex, who_age |-> f.rows[k].age,
                         who_life_expectancy |-> f.rows[k].life_expectancy]])

\* hld.py 123-125
hld_sex(x) == IF Lower(Str(x)) \in {"m", "male", "1"} THEN "M" ELSE "F"

\* hld.py 144-153 and 193-202, after fillna("") of line 208
hld_empty_row ==
    [hld_country |-> NoStr, hld_age |-> NaN, hld_sex |-> NoStr, hld_year |-> NaN,
     hld_life_expectancy |-> NaN]

\* hld.py 133-140: exact country match, else substring match
hld_country_matches(sdf, country_val) ==
    LET exact(x) == Upper(x.country) = country_val
        partial(x) == Contains(Upper(x.country), country_val)
    IN  IF Len(SelectSeq(sdf, exact)) > 0 THEN SelectSeq(sdf, exact)
        ELSE SelectSeq(sdf, partial)

\* hld.py 129-204: one iteration of the loop, for the row r of df_temp
match_hld(c, r, dc) ==
    IF ~c.normalized THEN Failed("KeyError")
    ELSE LET country_matches == hld_country_matches(c.rows, Upper(Str(r[dc.country])))
             sameSex(x) == Upper(Str(x.sex)) = Upper(Str(r["__temp_sex"]))
             bySex == SelectSeq(country_matches, sameSex)
         IN  IF Len(country_matches) = 0 THEN Matched(<<hld_empty_row>>)
             ELSE IF Len(bySex) = 0 THEN Failed("ValueError")
             ELSE LET sdf == nearest(nearest(bySex, "age", r[dc.age]), "year", r[dc.year])
                      best_match == sdf[1]
                  IN  Matched(<<[hld_country |-> best_match.country,
                                 hld_age |-> best_match.age,
                                 hld_sex |-> best_match.sex,
                                 hld_year |-> best_match.year,
                                 hld_life_expectancy |-> best_match.life_expectancy]>>)

(* ------------------------------- join ---------------------------------- *)
NewCols(s) ==
    CASE s = "ssa" -> <<"ssa_age", "ssa_year", "ssa_life_expectancy">>
      [] s = "who" -> <<"who_country", "who_year", "who_sex", "who_age",
                        "who_life_expectancy">>
      [] s = "hld" -> <<"hld_country", "hld_age", "hld_sex", "hld_year",
                        "hld_life_expectancy">>

\* the missing values of the new columns in a left row without a match
MissingVals(s) ==
    CASE s = "ssa" -> [ssa_age |-> NaN, ssa_year |-> NaN, ssa_life_expectancy |-> NaN]
      [] s = "who" -> [who_country |-> NoStr, who_year |-> NaN, who_sex |-> NoStr,
                       who_age |-> NaN, who_life_expectancy |-> NaN]
      [] s = "hld" -> hld_empty_row

\* DataFrame.join: a left join on the row labels.  right is a sequence of
\* [index, vals]; a left row is repeated once per right row of its label
\* and kept once, with missing values, when there is none.
join(left, right, newcols, missing) ==
    LET rowsFor(k) ==
            LET mine(x) == x.index = left.idx[k]
                ms == SelectSeq(right, mine)
            IN  IF Len(ms) = 0 THEN <<[index |-> left.idx[k], vals |-> missing]>> ELSE ms
        parts == [k \in 1..Len(left.rows) |->
                    [n \in 1..Len(rowsFor(k)) |->
                        [idx |-> left.idx[k], row |-> left.rows[k] @@ rowsFor(k)[n].vals]]]
        flat == Flatten(parts)
    IN  [cols |-> left.cols \o newcols,
         idx |-> [n \in 1..Len(flat) |-> flat[n].idx],
         rows |-> [n \in 1..Len(flat) |-> flat[n].row]]

(* ------------------- the sex column of who.py 66-68, 86-87 ------------- *)
\* df.rename(columns={df_cols['sex']: '__sex'}, inplace=True)
who_rename(t, sexcol) ==
    [cols |-> [n \in 1..Len(t.cols) |-> IF t.cols[n] = sexcol THEN "__sex" ELSE t.cols[n]],
     idx |-> t.idx,
     rows |-> [n \in 1..Len(t.rows) |->
                 [c \in (DOMAIN t.rows[n] \ {sexcol}) \cup {"__sex"} |->
                     IF c = "__sex" THEN t.rows[n][sexcol] ELSE t.rows[n][c]]]]

\* df['sex'] = df['__sex'].apply(...): a new last column, or the column
\* `sex` overwritten in place
who_add_sex(t) ==
    [cols |-> IF "sex" \in Range(t.cols) THEN t.cols ELSE Append(t.cols, "sex"),
     idx |-> t.idx,
     rows |-> [n \in 1..Len(t.rows) |->
                 [c \in DOMAIN t.rows[n] \cup {"sex"} |->
                     IF c = "sex" THEN who_sex(t.rows[n]["__sex"]) ELSE t.rows[n][c]]]]

\* del df['sex']; df.rename(columns={'__sex': df_cols['sex']}, inplace=True)
who_restore(t, sexcol) ==
    LET notSex(c) == c # "sex"
        cs == SelectSeq(t.cols, notSex)
    IN  [cols |-> [n \in 1..Len(cs) |-> IF cs[n] = "__sex" THEN sexcol ELSE cs[n]],
         idx |-> t.idx,
         rows |-> [n \in 1..Len(t.rows) |->
                     [c \in (DOMAIN t.rows[n] \ {"sex", "__sex"}) \cup {sexcol} |->
                         IF c = sexcol THEN t.rows[n]["__sex"] ELSE t.rows[n][c]]]]

\* hld.py 122-125: df_temp = df.copy() with the column __temp_sex
hld_temp(t, sexcol) ==
    [cols |-> Append(t.cols, "__temp_sex"),
     idx |-> t.idx,
     rows |-> [n \in 1..Len(t.rows) |->
                 [c \in DOMAIN t.rows[n] \cup {"__temp_sex"} |->
                     IF c = "__temp_sex" THEN hld_sex(t.rows[n][sexcol])
                     ELSE t.rows[n][c]]]]

(* ------------------------------ the calls ------------------------------ *)
NoResult == [status |-> "none", exc |-> "", value |-> EmptyTable]
Returned(t) == [status |-> "returned", exc |-> "", value |-> t]
Raised(e) == [status |-> "raised", exc |-> e, value |-> EmptyTable]

(* What a call writes: stdout holds the lines printed, log the records of  *)
(* level WARNING and above handed to the module's logger.  A backquote in  *)
(* a message is written as an apostrophe.                                  *)
NoColumn(name) == "No column '" \o name \o "' in the DataFrame"

\* ssa.py 40 and hld.py 57 log the message, who.py 45 prints it
Warned(s, name) ==
    IF s = "who" THEN <<>> ELSE <<[level |-> "WARNING", msg |-> NoColumn(name)]>>

Printed(s, name) == IF s = "who" THEN <<NoColumn(name)>> ELSE <<>>

\* hld.py 65, 78, 115-116
HLDNotFound == <<[level |-> "ERROR", msg |-> "HLD data file not found"]>>
HLDEmpty == <<[level |-> "ERROR", msg |-> "HLD data file is empty"]>>
HLDError ==
    <<[level |-> "ERROR", msg |-> "Error loading HLD data"],
      [level |-> "ERROR", msg |-> "The HLD data file may be corrupted or missing."]>>

(* The first call of the process, kept for the calls that repeat it: its   *)
(* table, its mapping and its outcome.  Only the inputs of FirstInputs are *)
(* kept; the state is "other" after any other first call.                  *)
NoHist == [state |-> "none", t |-> EmptyTable, m |-> NoMapping, result |-> NoResult]

FirstInputs == {<<MkTable(DefaultNames, {}, <<0>>, <<ProbeRow>>), NoMapping>>}

Started(h, t, m) ==
    IF h.state # "none" THEN h
    ELSE IF <<t, m>> \in FirstInputs
         THEN [state |-> "pending", t |-> t, m |-> m, result |-> NoResult]
         ELSE [h EXCEPT !.state = "other"]

Record(h, r) == IF h.state = "pending" THEN [h EXCEPT !.state = "set", !.result = r] ELSE h

\* no call of a function of utils.py is under way
NoCall ==
    [fn |-> "", lst |-> [kind |-> "list", items |-> <<>>], c |-> 0, cols |-> <<>>,
     ag |-> ""]
NoRet == [status |-> "none", value |-> 0, cols |-> <<>>]

(* Two callers of one source (SpecThreads): tpc is where each of them is  *)
(* in the lazy load, inits counts the assignments of a freshly read table  *)
(* to the cache.                                                           *)
Threads == {"A", "B"}
NoThreads == [t \in Threads |-> "idle"]

(* The data updaters (SpecData).  files is the data directory of the SSA   *)
(* updater: the content of each file, NoFile when there is none.  A data   *)
(* frame is the string None, "empty", or a name that tells where its rows  *)
(* come from.  upd is one call of SSADataUpdater.save_ssa_data or          *)
(* update_ssa_data, master one call of MasterDataUpdater.update_all.       *)
FileNames == {"ssa.csv", "ssa-backup.csv", "ssa-new.csv"}
NoFile == ""
NoFiles == [f \in FileNames |-> NoFile]
NoData == "None"
NoSaved == [called |-> FALSE, df |-> NoData, ret |-> "none"]

NoUpd ==
    [fn |-> "", pc |-> "idle", overwrite |-> FALSE, data |-> NoData, tried |-> <<>>,
     yielded |-> <<>>, before |-> NoFiles, ops |-> <<>>, failed |-> FALSE,
     saved |-> NoSaved, ret |-> "none"]

NoMaster ==
    [pc |-> "idle", sources |-> {}, attempted |-> <<>>, outcomes |-> <<>>,
     results |-> <<>>, ret |-> "none"]

Init ==
    /\ src \in Sources
    /\ resource \in Resources(src)
    /\ cache = None
    /\ pc = "idle"
    /\ df = EmptyTable
    /\ df_in = EmptyTable
    /\ df_temp = EmptyTable
    /\ cols = NoMapping
    /\ df_cols = DefaultNames
    /\ i = 0
    /\ out_list = <<>>
    /\ index_list = <<>>
    /\ out_df = <<>>
    /\ result = NoResult
    /\ stdout = <<>>
    /\ log = <<>>
    /\ read = FALSE
    /\ hist = NoHist
    /\ call = NoCall
    /\ ret = NoRet
    /\ tpc = NoThreads
    /\ inits = 0
    /\ files = NoFiles
    /\ upd = NoUpd
    /\ master = NoMaster

\* The caller passes the table t and the mapping m; the column check of
\* ssa.py 36-42, who.py 41-47, hld.py 53-59 returns t itself when a mapped
\* column is absent.
Call(t, m) ==
    /\ pc = "idle"
    /\ df' = t
    /\ df_in' = t
    /\ cols' = m
    /\ read' = FALSE
    /\ IF Len(MissingCols(src, t, m)) > 0
       THEN /\ result' = Returned(t)
            /\ pc' = "done"
            /\ log' = Warned(src, tcol(m, MissingCols(src, t, m)[1]))
            /\ stdout' = Printed(src, tcol(m, MissingCols(src, t, m)[1]))
            /\ hist' = Record(Started(hist, t, m), Returned(t))
            /\ UNCHANGED df_cols
       ELSE /\ df_cols' = [k \in Keys |-> tcol(m, k)]
            /\ pc' = "load"
            /\ log' = <<>>
            /\ stdout' = <<>>
            /\ hist' = Started(hist, t, m)
            /\ UNCHANGED result
    /\ UNCHANGED <<tpc, inits, files, upd, master>>
    /\ UNCHANGED <<src, resource, cache, df_temp, i, out_list, index_list, out_df,
                   call, ret>>

Finish(r) ==
    /\ result' = r
    /\ pc' = "done"
    /\ hist' = Record(hist, r)

StartLoop ==
    /\ pc' = "loop"
    /\ i' = 1
    /\ out_list' = <<>>
    /\ index_list' = <<>>
    /\ out_df' = <<>>
    /\ UNCHANGED <<result, hist>>

\* `if cls.__df is None:` (ssa.py 44, who.py 49, hld.py 61) with the test
\* left out: every call loads
is_None_always(c) == TRUE

\* `if cls.__df is None:` (ssa.py 44, who.py 49, hld.py 61)
is_None(c) == ~c.loaded

\* ssa.py 44-48: the lazy load; read_csv raises when there is no file or no
\* parsable file
LoadSSA ==
    /\ pc = "load" /\ src = "ssa"
    /\ read' = is_None(cache)
    /\ IF is_None(cache) /\ resource.kind # "ok"
       THEN /\ Finish(Raised(IF resource.kind = "missing" THEN "FileNotFoundError"
                                                          ELSE "ParserError"))
            /\ UNCHANGED <<cache, i, out_list, index_list, out_df>>
       ELSE /\ cache' = IF is_None(cache) THEN SSA_load(resource.rows) ELSE cache
            /\ StartLoop
    /\ UNCHANGED <<tpc, inits, files, upd, master>>
    /\ UNCHANGED <<src, resource, df, df_in, df_temp, cols, df_cols, stdout, log,
                   call, ret>>

\* who.py 49-70: the lazy load, then the temporary sex column written into
\* the caller's table
LoadWHO ==
    /\ pc = "load" /\ src = "who"
    /\ read' = is_None(cache)
    /\ IF is_None(cache) /\ resource.kind # "ok"
       THEN /\ Finish(Raised(IF resource.kind = "missing" THEN "FileNotFoundError"
                                                          ELSE "ParserError"))
            /\ UNCHANGED <<cache, df, i, out_list, index_list, out_df>>
       ELSE /\ cache' = IF is_None(cache) THEN WHO_load(resource.rows) ELSE cache
            /\ LET renamed == who_rename(df, df_cols.sex)
               IN  IF \E n \in 1..Len(df.rows) : ~IsStr(df.rows[n][df_cols.sex])
                   THEN /\ df' = renamed
                        /\ Finish(Raised("AttributeError"))
                        /\ UNCHANGED <<i, out_list, index_list, out_df>>
                   ELSE /\ df' = who_add_sex(renamed)
                        /\ StartLoop
    /\ UNCHANGED <<tpc, inits, files, upd, master>>
    /\ UNCHANGED <<src, resource, df_in, df_temp, cols, df_cols, stdout, log,
                   call, ret>>

\* hld.py 61-127: the lazy load, which returns the input when there is no
\* usable file, then the working copy with the normalized sex
LoadHLD ==
    /\ pc = "load" /\ src = "hld"
    /\ read' = (is_None(cache) /\ resource.kind # "missing")
    /\ IF is_None(cache) /\ resource.kind # "ok"
       THEN /\ Finish(Returned(df))
            /\ log' = IF resource.kind = "missing" THEN HLDNotFound ELSE HLDError
            /\ UNCHANGED <<cache, df_temp, i, out_list, index_list, out_df>>
       ELSE IF is_None(cache) /\ Len(resource.rows) = 0
       THEN /\ cache' = HLD_read(resource.rows)
            /\ Finish(Returned(df))
            /\ log' = HLDEmpty
            /\ UNCHANGED <<df_temp, i, out_list, index_list, out_df>>
       ELSE /\ cache' = IF is_None(cache) THEN HLD_normalize(resource.rows) ELSE cache
            /\ df_temp' = hld_temp(df, df_cols.sex)
            /\ StartLoop
            /\ UNCHANGED log
    /\ UNCHANGED <<tpc, inits, files, upd, master>>
    /\ UNCHANGED <<src, resource, df, df_in, cols, df_cols, stdout, call, ret>>

\* ssa.py 49-61: one iteration
MatchRowSSA ==
    /\ pc = "loop" /\ src = "ssa" /\ i <= Len(df.rows)
    /\ LET m == match_ssa(cache.rows, df.rows[i], df_cols)
       IN  IF m.exc # ""
           THEN /\ Finish(Raised(m.exc))
                /\ UNCHANGED <<i, out_list, index_list>>
           ELSE /\ i' = i + 1
                /\ out_list' = IF Len(m.rows) > 0 THEN Append(out_list, m.rows) ELSE out_list
                /\ index_list' = IF Len(m.rows) > 0 THEN Append(index_list, df.idx[i])
                                 ELSE index_list
                /\ UNCHANGED <<pc, result, hist>>
    /\ UNCHANGED <<tpc, inits, files, upd, master>>
    /\ UNCHANGED <<src, resource, cache, df, df_in, df_temp, cols, df_cols, out_df,
                   stdout, log, read, call, ret>>

\* who.py 71-80: one iteration; every surviving row goes to out_df under
\* the label of the query row
MatchRowWHO ==
    /\ pc = "loop" /\ src = "who" /\ i <= Len(df.rows)
    /\ LET m == match_who(cache.rows, df.rows[i], df_cols)
       IN  IF m.exc # ""
           THEN /\ Finish(Raised(m.exc))
                /\ UNCHANGED <<i, out_df>>
           ELSE /\ i' = i + 1
                /\ out_df' = out_df \o [k \in 1..Len(m.rows) |->
                                          [index |-> df.idx[i], vals |-> m.rows[k]]]
                /\ UNCHANGED <<pc, result, hist>>
    /\ UNCHANGED <<tpc, inits, files, upd, master>>
    /\ UNCHANGED <<src, resource, cache, df, df_in, df_temp, cols, df_cols, out_list,
                   index_list, stdout, log, read, call, ret>>

\* hld.py 128-204: one iteration; exactly one row goes to out_df
MatchRowHLD ==
    /\ pc = "loop" /\ src = "hld" /\ i <= Len(df_temp.rows)
    /\ LET m == match_hld(cache, df_temp.rows[i], df_cols)
       IN  IF m.exc # ""
           THEN /\ Finish(Raised(m.exc))
                /\ UNCHANGED <<i, out_df>>
           ELSE /\ i' = i + 1
                /\ out_df' = out_df \o [k \in 1..Len(m.rows) |->
                                          [index |-> df_temp.idx[i], vals |-> m.rows[k]]]
                /\ UNCHANGED <<pc, result, hist>>
    /\ UNCHANGED <<tpc, inits, files, upd, master>>
    /\ UNCHANGED <<src, resource, cache, df, df_in, df_temp, cols, df_cols, out_list,
                   index_list, stdout, log, read, call, ret>>

\* ssa.py 63-70: the matches get the labels of index_list, then the join
JoinSSA ==
    /\ pc = "loop" /\ src = "ssa" /\ i > Len(df.rows)
    /\ LET flat == Flatten(out_list)
       IN  IF Len(out_list) = 0
           THEN /\ out_df' = <<>>
                /\ Finish(Returned(join(df, <<>>, <<>>, <<>>)))
           ELSE IF Len(flat) # Len(index_list)
           THEN /\ out_df' = [k \in 1..Len(flat) |-> [index |-> k - 1, vals |-> flat[k]]]
                /\ Finish(Raised("ValueError"))
           ELSE /\ out_df' = [k \in 1..Len(flat) |->
                                [index |-> index_list[k], vals |-> flat[k]]]
                /\ Finish(Returned(join(df, out_df', NewCols("ssa"), MissingVals("ssa"))))
    /\ UNCHANGED <<tpc, inits, files, upd, master>>
    /\ UNCHANGED <<src, resource, cache, df, df_in, df_temp, cols, df_cols, i, out_list,
                   index_list, stdout, log, read, call, ret>>

\* who.py 81-90: set_index('index') raises when no iteration gave out_df its
\* columns; else the sex column is restored and the tables are joined
JoinWHO ==
    /\ pc = "loop" /\ src = "who" /\ i > Len(df.rows)
    /\ IF Len(df.rows) = 0
       THEN /\ Finish(Raised("KeyError"))
            /\ UNCHANGED df
       ELSE /\ df' = who_restore(df, df_cols.sex)
            /\ Finish(Returned(join(df', out_df, NewCols("who"), MissingVals("who"))))
    /\ UNCHANGED <<tpc, inits, files, upd, master>>
    /\ UNCHANGED <<src, resource, cache, df_in, df_temp, cols, df_cols, i, out_list,
                   index_list, out_df, stdout, log, read, call, ret>>

\* hld.py 206-212
JoinHLD ==
    /\ pc = "loop" /\ src = "hld" /\ i > Len(df_temp.rows)
    /\ IF Len(df_temp.rows) = 0
       THEN Finish(Raised("KeyError"))
       ELSE Finish(Returned(join(df, out_df, NewCols("hld"), MissingVals("hld"))))
    /\ UNCHANGED <<tpc, inits, files, upd, master>>
    /\ UNCHANGED <<src, resource, cache, df, df_in, df_temp, cols, df_cols, i, out_list,
                   index_list, out_df, stdout, log, read, call, ret>>

\* the call is over; the caller may call again
Return ==
    /\ pc = "done"
    /\ pc' = "idle"
    /\ df' = EmptyTable
    /\ df_in' = EmptyTable
    /\ df_temp' = EmptyTable
    /\ cols' = NoMapping
    /\ df_cols' = DefaultNames
    /\ i' = 0
    /\ out_list' = <<>>
    /\ index_list' = <<>>
    /\ out_df' = <<>>
    /\ result' = NoResult
    /\ stdout' = <<>>
    /\ log' = <<>>
    /\ read' = FALSE
    /\ UNCHANGED <<tpc, inits, files, upd, master>>
    /\ UNCHANGED <<src, resource, cache, hist, call, ret>>

Next ==
    \/ \E in \in Inputs : Call(in[1], in[2])
    \/ LoadSSA
    \/ LoadWHO
    \/ LoadHLD
    \/ MatchRowSSA
    \/ MatchRowWHO
    \/ MatchRowHLD
    \/ JoinSSA
    \/ JoinWHO
    \/ JoinHLD
    \/ Return

Spec == Init /\ [][Next]_vars

(* ====================== the functions of utils.py ====================== *)
(* closest and fixup_columns are pure: a behaviour of SpecUtils is one     *)
(* call of one of them, with its arguments drawn in the initial state.     *)
(* The first argument of closest is a Python list or a numpy array:        *)
(* [kind, items].  An entry of the argument of fixup_columns is a Python   *)
(* value [type, int, str]: an int, a str, or a float (its value in int).   *)
MaxLen == 3      \* length of the list arguments

ClosestValues == {1, 3, 5, 10}
ClosestTargets == {0, 2, 4, 5, 11}

PyInt(n) == [type |-> "int", int |-> n, str |-> ""]
PyStr(x) == [type |-> "str", int |-> 0, str |-> x]
PyFloat(n) == [type |-> "float", int |-> n, str |-> ""]

ColumnEntries ==
    {PyInt(0), PyInt(2), PyInt(12), PyStr("name"), PyStr("col0"), PyFloat(2)}

ClosestCalls ==
    {[fn |-> "closest", lst |-> [kind |-> k, items |-> l], c |-> t, cols |-> <<>>,
      ag |-> ""] :
        k \in {"list", "ndarray"}, l \in SeqsUpTo(ClosestValues, MaxLen),
        t \in ClosestTargets}

FixupCalls ==
    {[fn |-> "fixup_columns", lst |-> [kind |-> "list", items |-> <<>>], c |-> 0,
      cols |-> l, ag |-> ""] : l \in SeqsUpTo(ColumnEntries, MaxLen)}

\* age-group codes: the codes of the WHO file, and strings that are none
AgeCodes ==
    {"AGE100+", "AGE85PLUS", "AGELT1", "AGE1-4", "AGE5-9", "AGE80-84",
     "AGE5-9x", "AGE85PLUSx", "AGE5-", "AGE-9", "AGE5", "age5-9", "XAGE5-9",
     "BTSX", ""}

ConvertCalls ==
    {[fn |-> "convert_agegroup", lst |-> [kind |-> "list", items |-> <<>>], c |-> 0,
      cols |-> <<>>, ag |-> a] : a \in AgeCodes}

\* utils.py 69: hasattr(lst, "tolist")
hasattr_tolist(lst) == lst.kind = "ndarray"

\* ndarray.tolist() with the elements in the opposite order
tolist_reversed(lst) == [k \in 1..Len(lst.items) |-> lst.items[Len(lst.items) + 1 - k]]

\* ndarray.tolist(): the elements as Python numbers, in order
tolist(lst) == [k \in 1..Len(lst.items) |-> lst.items[k]]

\* utils.py 68-72
working_list(lst) == IF hasattr_tolist(lst) THEN tolist(lst) ELSE lst.items

\* the decimal digits of a natural number, and the format `:d`
Digit(n) == SubSeq("0123456789", n + 1, n + 1)

RECURSIVE Digits(_)
Digits(n) == IF n < 10 THEN Digit(n) ELSE Digits(n \div 10) \o Digit(n % 10)

format_d(n) == IF n < 0 THEN "-" \o Digits(-n) ELSE Digits(n)

\* isinstance(col, int) that no entry passes
isinstance_never(col) == FALSE

\* utils.py 50: isinstance(col, int)
isinstance_int(col) == col.type = "int"

\* utils.py 48-54
fixup_columns(cs) ==
    [k \in 1..Len(cs) |->
        IF isinstance_int(cs[k]) THEN PyStr("col" \o format_d(cs[k].int)) ELSE cs[k]]

InitUtils ==
    /\ src = "ssa"
    /\ resource = [kind |-> "missing", rows |-> <<>>]
    /\ cache = None
    /\ pc = "idle"
    /\ df = EmptyTable
    /\ df_in = EmptyTable
    /\ df_temp = EmptyTable
    /\ cols = NoMapping
    /\ df_cols = DefaultNames
    /\ i = 0
    /\ out_list = <<>>
    /\ index_list = <<>>
    /\ out_df = <<>>
    /\ result = NoResult
    /\ stdout = <<>>
    /\ log = <<>>
    /\ read = FALSE
    /\ hist = NoHist
    /\ call \in ClosestCalls \cup FixupCalls \cup ConvertCalls
    /\ ret = NoRet
    /\ tpc = NoThreads
    /\ inits = 0
    /\ files = NoFiles
    /\ upd = NoUpd
    /\ master = NoMaster

\* utils.py 57-73: min() of an empty range raises ValueError
Closest ==
    /\ call.fn = "closest" /\ ret.status = "none"
    /\ ret' = IF Len(working_list(call.lst)) = 0
              THEN [status |-> "raised", value |-> 0, cols |-> <<>>]
              ELSE [status |-> "returned", value |-> closest(working_list(call.lst), call.c),
                    cols |-> <<>>]
    /\ UNCHANGED <<tpc, inits, files, upd, master>>
    /\ UNCHANGED <<src, resource, cache, pc, df, df_in, df_temp, cols, df_cols, i,
                   out_list, index_list, out_df, result, stdout, log, read, hist, call>>

\* utils.py 38-54
FixupColumns ==
    /\ call.fn = "fixup_columns" /\ ret.status = "none"
    /\ ret' = [status |-> "returned", value |-> 0, cols |-> fixup_columns(call.cols)]
    /\ UNCHANGED <<tpc, inits, files, upd, master>>
    /\ UNCHANGED <<src, resource, cache, pc, df, df_in, df_temp, cols, df_cols, i,
                   out_list, index_list, out_df, result, stdout, log, read, hist, call>>

\* who.py 92-104, applied to one code
ConvertAgegroup ==
    /\ call.fn = "convert_agegroup" /\ ret.status = "none"
    /\ ret' = [status |-> "returned", value |-> convert_agegroup(call.ag), cols |-> <<>>]
    /\ UNCHANGED <<tpc, inits, files, upd, master>>
    /\ UNCHANGED <<src, resource, cache, pc, df, df_in, df_temp, cols, df_cols, i,
                   out_list, index_list, out_df, result, stdout, log, read, hist, call>>

NextUtils ==
    \/ Closest
    \/ FixupColumns
    \/ ConvertAgegroup

SpecUtils == InitUtils /\ [][NextUtils]_vars

(* ======================= properties of the calls ======================= *)
RequiredKeys(s) == IF s = "ssa" THEN {"age", "sex", "year"} ELSE Keys

\* a mapped required column is not a column of the table the caller passed
AbsentRequired ==
    \E k \in RequiredKeys(src) : (IF cols.none THEN k ELSE cols.map[k]) \notin Range(df_in.cols)

\* the reference table is in the cache, fully normalized, and has rows
Usable == cache.loaded /\ cache.normalized /\ Len(cache.rows) > 0

\* the query row n as the caller passed it, by key
QIn(n, k) == df_in.rows[n][df_cols[k]]

\* C1: with all mapped columns present, the output has as many rows as the
\* input and row n of the output carries the labels and the original values
\* of input row n (repeated row labels and repeated reference keys included).
C1_RowsPreserved ==
    (pc = "done" /\ ~AbsentRequired /\ result.status = "returned") =>
        /\ Len(result.value.rows) = Len(df_in.rows)
        /\ \A n \in 1..Len(df_in.rows) :
              /\ result.value.idx[n] = df_in.idx[n]
              /\ \A c \in Range(df_in.cols) : result.value.rows[n][c] = df_in.rows[n][c]

\* C2: when a mapped required column is absent, the call ends at once; it
\* returns the input table, column for column and value for value, without a
\* source-prefixed column, it does not raise, and it leaves the caller's
\* table and the cache alone.
C2_MissingColumnReturnsInput ==
    (pc # "idle" /\ AbsentRequired) =>
        /\ pc = "done"
        /\ result = Returned(df_in)
        /\ df = df_in
        /\ \A c \in Range(NewCols(src)) : c \notin Range(result.value.cols)

C2_Witness ==
    /\ pc = "done"
    /\ AbsentRequired
    /\ ~cols.none
    /\ Len(df_in.rows) > 0
    /\ result.status = "returned"

\* C3: a query table without rows (with or without columns) comes back as
\* the same empty table, without new columns, and the call does not raise.
C3_EmptyTableUnchanged ==
    (pc = "done" /\ Usable /\ Len(df_in.rows) = 0) =>
        /\ result.status = "returned"
        /\ result.value.cols = df_in.cols
        /\ Len(result.value.rows) = 0

\* C4: in lost_years_who a query row whose country has no reference row does
\* not make the call raise; the row gets missing values in the who_ columns.
C4_UnknownCountryNoRaise ==
    (/\ pc = "done" /\ src = "who" /\ Usable /\ ~AbsentRequired
     /\ cols.none
     /\ \A n \in 1..Len(df_in.rows) : IsStr(QIn(n, "sex"))
     /\ \E n \in 1..Len(df_in.rows) :
           \A x \in Range(cache.rows) : Lower(x.country) # Lower(QIn(n, "country")))
    => /\ result.status = "returned"
       /\ \A n \in 1..Len(result.value.rows) :
             (\A x \in Range(cache.rows) :
                 Lower(x.country) # Lower(result.value.rows[n][df_cols.country]))
             => result.value.rows[n]["who_life_expectancy"] = NaN

\* C5: the match of a query row is exactly one row, the first surviving
\* reference row, also when several reference rows survive the filters.
C5_FirstSurvivorOnly ==
    pc = "loop" =>
        /\ src = "ssa" => \A k \in 1..Len(out_list) : out_list[k] = <<out_list[k][1]>>
        /\ src # "ssa" => Len(out_df) = i - 1

(* ---- one iteration of the loop, as the claims about matching see it ---- *)
\* an iteration that ended with a match result for the query row i
MatchStep == pc = "loop" /\ pc' = "loop" /\ i' = i + 1

\* the query row of the iteration, by key
Q(k) == IF src = "hld" THEN df_temp.rows[i][df_cols[k]] ELSE df.rows[i][df_cols[k]]

OutCol(k) ==
    CASE src = "ssa" -> [age |-> "ssa_age", year |-> "ssa_year",
                         le |-> "ssa_life_expectancy"][k]
      [] src = "who" -> [age |-> "who_age", year |-> "who_year", sex |-> "who_sex",
                         country |-> "who_country", le |-> "who_life_expectancy"][k]
      [] src = "hld" -> [age |-> "hld_age", year |-> "hld_year", sex |-> "hld_sex",
                         country |-> "hld_country", le |-> "hld_life_expectancy"][k]

\* the reference rows the iteration appended as the match of row i
NewRows ==
    IF src = "ssa"
    THEN IF Len(out_list') > Len(out_list) THEN out_list'[Len(out_list')] ELSE <<>>
    ELSE [k \in 1..(Len(out_df') - Len(out_df)) |-> out_df'[Len(out_df) + k].vals]

\* the matches among them (lost_years_hld appends a row of missing values
\* for a query row without a match)
NewMatches == {m \in Range(NewRows) : m[OutCol("le")] # NaN}

Dist(a, b) == Abs(a - b)

\* the reference rows (by position) that survive the keys before age, for a
\* query row matched to m
BeforeAge(m) ==
    LET ref == cache.rows
    IN  CASE src = "ssa" -> 1..Len(ref)
          [] src = "who" ->
                {n \in 1..Len(ref) : Lower(ref[n].country) = Lower(Q("country"))}
          [] src = "hld" ->
                LET cv == Upper(Q("country"))
                    exact == {n \in 1..Len(ref) : Upper(ref[n].country) = cv}
                    partial == {n \in 1..Len(ref) : Contains(Upper(ref[n].country), cv)}
                    byCountry == IF exact # {} THEN exact ELSE partial
                IN  {n \in byCountry : ref[n].sex = m[OutCol("sex")]}

\* the reference rows that survive the keys before year (age included)
BeforeYear(m) ==
    LET ref == cache.rows
        byAge == {n \in BeforeAge(m) : ref[n].age = m[OutCol("age")]}
    IN  IF src = "who" THEN {n \in byAge : ref[n].sex = m[OutCol("sex")]} ELSE byAge

Nearest(S, k, v) == {n \in S : \A j \in S : Dist(cache.rows[n][k], v) <= Dist(cache.rows[j][k], v)}

First(S) == CHOOSE n \in S : \A j \in S : n <= j

\* C6: each numeric key is matched among the rows that survived the earlier
\* keys: the selected age is at minimal distance from the query age among
\* those rows, the selected year is at minimal distance from the query year
\* among the rows that also have the selected age, and only rows with the
\* selected values survive; {1,2,5,10} and 4 select 5.
C6_NearestKeyByKey ==
    [][MatchStep =>
        /\ \A m \in NewMatches :
              /\ Nearest(BeforeAge(m), "age", Q("age")) # {}
              /\ \E n \in Nearest(BeforeAge(m), "age", Q("age")) :
                    cache.rows[n].age = m[OutCol("age")]
              /\ \E n \in Nearest(BeforeYear(m), "year", Q("year")) :
                    /\ cache.rows[n].year = m[OutCol("year")]
                    /\ cache.rows[n][IF src = "ssa" THEN ssa_ecol(Q("sex"))
                                     ELSE "life_expectancy"] = m[OutCol("le")]
        /\ \A m1, m2 \in NewMatches :
              /\ m1[OutCol("age")] = m2[OutCol("age")]
              /\ m1[OutCol("year")] = m2[OutCol("year")]
        /\ closest(<<1, 2, 5, 10>>, 4) = 5]_vars

\* a year nearer to the query year exists in the reference table, in a row
\* that did not survive the age key
C6_Witness ==
    /\ src = "ssa" /\ pc = "loop" /\ i = 2
    /\ Len(out_list) = 1
    /\ \E x \in Range(cache.rows) :
          Dist(x.year, df.rows[1][df_cols.year])
              < Dist(out_list[1][1].ssa_year, df.rows[1][df_cols.year])

\* C7: among equally close values of a numeric key, the value of the first
\* surviving row in reference order is selected (so the selection is a
\* function of the reference table and the query row); {1,3} and 2 select
\* 1, and 3 when 3 comes first.
C7_TieTakesFirst ==
    [][MatchStep =>
        /\ \A m \in NewMatches :
              /\ Nearest(BeforeAge(m), "age", Q("age")) # {}
              /\ m[OutCol("age")]
                    = cache.rows[First(Nearest(BeforeAge(m), "age", Q("age")))].age
              /\ Nearest(BeforeYear(m), "year", Q("year")) # {}
              /\ m[OutCol("year")]
                    = cache.rows[First(Nearest(BeforeYear(m), "year", Q("year")))].year
        /\ closest(<<1, 3>>, 2) = 1
        /\ closest(<<3, 1>>, 2) = 3]_vars

\* the ages 1 and 5 are equally close to the query age 3, and 5 comes first
C7_Witness ==
    /\ pc = "loop" /\ i = 2 /\ src = "hld"
    /\ Len(out_df) = 1
    /\ df_temp.rows[1][df_cols.age] = 3
    /\ out_df[1].vals.hld_age = 5
    /\ \E x \in Range(cache.rows) : x.age = 1 /\ x.country = out_df[1].vals.hld_country
                                     /\ x.sex = out_df[1].vals.hld_sex

\* C8: every query sex in {"M", "m", "Male", "male", "1"} is classified as
\* male: SSA reads male_life_expectancy, WHO filters on MLE, HLD on M.
C8_MaleTokens ==
    (pc = "loop" /\ Usable) =>
        \A n \in 1..Len(df_in.rows) :
            QIn(n, "sex") \in MaleTokens =>
                /\ src = "who" => df.rows[n]["sex"] = "MLE"
                /\ src = "hld" => df_temp.rows[n]["__temp_sex"] = "M"
                /\ (src = "ssa" /\ n <= Len(out_list)) =>
                      \A j \in 1..Len(out_list[n]) :
                          \E x \in Range(cache.rows) :
                              /\ x.age = out_list[n][j].ssa_age
                              /\ x.year = out_list[n][j].ssa_year
                              /\ x.male_life_expectancy = out_list[n][j].ssa_life_expectancy

\* C9: every query sex that is not a male token (an unrecognized string, a
\* value that is not a string) is classified as female, and the call never
\* raises because of the sex value.
C9_SexTotal ==
    (/\ pc \in {"loop", "done"} /\ Usable /\ ~AbsentRequired
     /\ \E n \in 1..Len(df_in.rows) : QIn(n, "sex") \notin MaleTokens)
    => /\ result.exc # "AttributeError"
       /\ pc = "loop" =>
             \A n \in 1..Len(df_in.rows) :
                 QIn(n, "sex") \notin MaleTokens =>
                     /\ src = "who" => df.rows[n]["sex"] = "FMLE"
                     /\ src = "hld" => df_temp.rows[n]["__temp_sex"] = "F"

AsDefault(n) == [k \in Keys |-> QIn(n, k)]

\* what one iteration of the loop gives for that row when the function is
\* called without a mapping
DefaultMatch(n) ==
    LET t == [cols |-> ColOrder, idx |-> <<0>>, rows |-> <<AsDefault(n)>>]
    IN  CASE src = "ssa" -> match_ssa(cache.rows, AsDefault(n), DefaultNames)
          [] src = "who" ->
                match_who(cache.rows, who_add_sex(who_rename(t, "sex")).rows[1], DefaultNames)
          [] src = "hld" -> match_hld(cache, hld_temp(t, "sex").rows[1], DefaultNames)

\* the values of the source-prefixed columns in row k of the returned table
Enriched(k) == [c \in Range(NewCols(src)) |-> result.value.rows[k][c]]

\* C11: a call with a custom column mapping, on a row for which the call with
\* the default mapping and the default column names finds its match, does not
\* raise and returns that same match in the source-prefixed columns.
C11_CustomMappingSameValues ==
    (/\ pc = "done" /\ Usable /\ ~AbsentRequired /\ ~cols.none
     /\ Len(df_in.rows) = 1
     /\ DefaultMatch(1).exc = ""
     /\ Len(DefaultMatch(1).rows) = 1)
    => /\ result.status = "returned"
       /\ Len(result.value.rows) = 1
       /\ Enriched(1) = DefaultMatch(1).rows[1]

\* C12: once the cache of the source holds a table, no step of any later call
\* reads the reference resource, and no step replaces or changes the cached
\* table.
C12_CacheLoadedOnce ==
    [][cache.loaded => (cache' = cache /\ (read' => read))]_vars

\* a later call is matching against the cached table without having read
\* the resource
C12_Witness ==
    /\ pc = "loop" /\ Usable /\ ~read
    /\ hist.state # "none"
    /\ i > 1

\* C13: when the reference resource is missing or cannot be parsed, a call on
\* a table with all mapped columns returns normally, with the input table or
\* with missing values in the source columns of every row; it never raises.
C13_NoResourceNoRaise ==
    (pc = "done" /\ resource.kind # "ok" /\ ~AbsentRequired) =>
        /\ result.status = "returned"
        /\ \/ result.value = df_in
           \/ /\ Len(result.value.rows) = Len(df_in.rows)
              /\ \A n \in 1..Len(result.value.rows) : Enriched(n) = MissingVals(src)

\* the resource gives lost_years_hld no table: no file, no parsable file, or
\* a file without data rows
HLDLoadFails == resource.kind # "ok" \/ Len(resource.rows) = 0

\* C14: in lost_years_hld, when the load fails, the first call and every
\* later call on a table with all mapped columns return the input table
\* unchanged and do not raise; and a call that is matching has a fully
\* normalized table in the cache.
C14_HLDFailedLoadStaysFailed ==
    src = "hld" =>
        /\ (pc = "done" /\ HLDLoadFails /\ ~AbsentRequired) => result = Returned(df_in)
        /\ pc = "loop" => cache.normalized

\* the columns the call appended to those of the input
Appended == SubSeq(result.value.cols, Len(df_in.cols) + 1, Len(result.value.cols))

\* no reference row has the country of query row n
NoCountryRow(n) ==
    \A x \in Range(cache.rows) :
        /\ Lower(x.country) # Lower(QIn(n, "country"))
        /\ ~Contains(Upper(x.country), Upper(QIn(n, "country")))

\* the shape of a returned table: the columns of the input in their order,
\* then the columns of the source; every input row is in it, with missing
\* values in the source columns when it has no match
EnrichedShape ==
    /\ SubSeq(result.value.cols, 1, Len(df_in.cols)) = df_in.cols
    /\ Len(Appended) = Len(NewCols(src))
    /\ Range(Appended) = Range(NewCols(src))
    /\ src = "ssa" => Appended = <<"ssa_age", "ssa_year", "ssa_life_expectancy">>
    /\ \A n \in 1..Len(df_in.rows) :
          \E k \in 1..Len(result.value.rows) :
              /\ \A c \in Range(df_in.cols) : result.value.rows[k][c] = df_in.rows[n][c]
              /\ (src # "ssa" /\ NoCountryRow(n)) => Enriched(k) = MissingVals(src)

\* C15: a call on a table with rows and all mapped columns, with a usable
\* reference table, returns the input columns in their order followed by
\* exactly the columns of the source, and a row without a match is in the
\* output with missing values in those columns.
C15_ColumnsAppended ==
    (/\ pc = "done" /\ Usable /\ ~AbsentRequired /\ Len(df_in.rows) > 0
     /\ \A n \in 1..Len(df_in.rows) : IsStr(QIn(n, "sex")))
    => (result.status = "returned" /\ EnrichedShape)

\* C16: a call that repeats the first call of the process (same table, same
\* mapping, same reference resource) ends with the outcome of that first
\* call, which populated the cache.
C16_FirstAndLaterCallsAgree ==
    (pc = "done" /\ hist.state = "set" /\ df_in = hist.t /\ cols = hist.m)
        => result = hist.result

(* ================= properties of the functions of utils.py ============== *)
\* the same numbers handed over as the other kind of sequence
OtherKind(lst) ==
    [kind |-> IF lst.kind = "list" THEN "ndarray" ELSE "list", items |-> lst.items]

\* C17: closest on a non-empty sequence returns a member of it at minimal
\* distance from c (c itself when c is a member, the only element of a
\* one-element sequence), and the same value for a list and for a numpy
\* array of the same numbers.
C17_ClosestIsNearestMember ==
    (call.fn = "closest" /\ ret.status # "none" /\ Len(call.lst.items) > 0) =>
        LET items == call.lst.items
        IN  /\ ret.status = "returned"
            /\ ret.value \in Range(items)
            /\ \A w \in Range(items) : Abs(ret.value - call.c) <= Abs(w - call.c)
            /\ call.c \in Range(items) => ret.value = call.c
            /\ Len(items) = 1 => ret.value = items[1]
            /\ ret.value = closest(working_list(OtherKind(call.lst)), call.c)

\* a numpy array with two values at the same distance from c
C17_Witness ==
    /\ call.fn = "closest" /\ ret.status = "returned"
    /\ call.lst.kind = "ndarray"
    /\ call.lst.items = <<3, 1>>
    /\ call.c = 2
    /\ ret.value = 3

\* the column name the claim gives for the integer n
ColName(n) ==
    CASE n = 0 -> "col0"
      [] n = 2 -> "col2"
      [] n = 12 -> "col12"

\* C18: fixup_columns returns a list of the length of its argument in which
\* entry k is "col<n>" when entry k of the argument is the integer n and is
\* entry k of the argument otherwise; applied to its own result it returns
\* that result.
C18_FixupColumns ==
    (call.fn = "fixup_columns" /\ ret.status # "none") =>
        /\ ret.status = "returned"
        /\ Len(ret.cols) = Len(call.cols)
        /\ \A k \in 1..Len(call.cols) :
              IF call.cols[k].type = "int"
              THEN ret.cols[k] = PyStr(ColName(call.cols[k].int))
              ELSE ret.cols[k] = call.cols[k]
        /\ fixup_columns(ret.cols) = ret.cols

\* integers and other entries in one list: [12, "name", 2.0]
C18_Witness ==
    /\ call.fn = "fixup_columns" /\ ret.status = "returned"
    /\ call.cols = <<PyInt(12), PyStr("name"), PyFloat(2)>>
    /\ ret.cols = <<PyStr("col12"), PyStr("name"), PyFloat(2)>>

(* ======================= what the calls write ========================== *)
\* the first mapped column, in the order age, sex, year, that the table of
\* the call does not have
FirstAbsentSSA ==
    LET name(k) == IF cols.none THEN k ELSE cols.map[k]
        absent(k) == name(k) \notin Range(df_in.cols)
    IN  IF absent("age") THEN name("age")
        ELSE IF absent("sex") THEN name("sex")
        ELSE name("year")

\* C19: when a mapped column is absent, lost_years_ssa writes "No column
\* <name> in the DataFrame" (the name quoted) to standard output, for the
\* first absent mapped column in the order age, sex, year.
C19_SSAPrintsMissingColumn ==
    (src = "ssa" /\ pc = "done" /\ AbsentRequired) =>
        stdout = <<NoColumn(FirstAbsentSSA)>>

(* ==================== rows without a candidate (HLD) =================== *)
\* the reference rows left for query row n after the country and sex steps
\* of lost_years_hld
HLDCandidates(n) ==
    LET cv == Upper(Str(QIn(n, "country")))
        exact == {x \in Range(cache.rows) : Upper(x.country) = cv}
        partial == {x \in Range(cache.rows) : Contains(Upper(x.country), cv)}
        byCountry == IF exact # {} THEN exact ELSE partial
    IN  {x \in byCountry : x.sex = hld_sex(QIn(n, "sex"))}

Distinct(s) == \A j, k \in 1..Len(s) : s[j] = s[k] => j = k

\* C20: in lost_years_hld a query row for which a filter step leaves no
\* reference row (no row of its country, or rows of its country but none of
\* its sex) does not make the call raise: the call returns, that row has
\* empty values in the five hld_ columns, and the other rows are processed.
C20_HLDNoCandidateNoRaise ==
    (/\ src = "hld" /\ pc = "done" /\ Usable /\ ~AbsentRequired
     /\ Distinct(df_in.idx)
     /\ \E n \in 1..Len(df_in.rows) : HLDCandidates(n) = {})
    => /\ result.status = "returned"
       /\ Len(result.value.rows) = Len(df_in.rows)
       /\ \A n \in 1..Len(df_in.rows) :
             IF HLDCandidates(n) = {} THEN Enriched(n) = hld_empty_row
             ELSE Enriched(n).hld_life_expectancy # NaN

(* ======================= the country step (HLD) ======================== *)
\* the reference rows whose country is the query country of row n, ignoring
\* case, and those whose country has it as a substring
ExactCountry(n) ==
    {x \in Range(cache.rows) : Upper(x.country) = Upper(Str(QIn(n, "country")))}

SubstringCountry(n) ==
    {x \in Range(cache.rows) :
        Upper(Str(QIn(n, "country"))) \in Substrings(Upper(x.country))}

\* C21: in lost_years_hld the match of a query row has the country of the
\* query row (ignoring case) whenever a reference row has it; a row whose
\* country only contains the query country as a substring is matched only
\* when no reference row has the query country; and when no reference row
\* contains it either, the query row has no match.
C21_HLDCountryExactThenSubstring ==
    (src = "hld" /\ pc = "loop" /\ Usable) =>
        \A n \in 1..Len(out_df) :
            LET m == out_df[n].vals
            IN  IF ExactCountry(n) # {}
                THEN \E x \in ExactCountry(n) : m.hld_country = x.country
                ELSE IF SubstringCountry(n) # {}
                THEN \E x \in SubstringCountry(n) : m.hld_country = x.country
                ELSE m = hld_empty_row

(* ====================== the rows WHO reports =========================== *)
\* row k of the returned table carries a reference row
Reported(k) == result.value.rows[k]["who_life_expectancy"] # NaN

\* C22: every row of the table lost_years_who returns that carries a match
\* has the who_country of its own country (ignoring case) and the who_sex of
\* its own sex, normalized to MLE or FMLE; no row with another sex code
\* (BTSX) is returned.
C22_WHOMatchHasQueryCountryAndSex ==
    (/\ src = "who" /\ pc = "done" /\ result.status = "returned"
     /\ ~AbsentRequired /\ Len(df_in.rows) > 0)
    => \A k \in 1..Len(result.value.rows) :
          Reported(k) =>
              /\ Lower(result.value.rows[k]["who_country"])
                    = Lower(result.value.rows[k][df_cols.country])
              /\ result.value.rows[k]["who_sex"]
                    = who_sex(result.value.rows[k][df_cols.sex])
              /\ result.value.rows[k]["who_sex"] \in {"MLE", "FMLE"}

(* ================= two callers of one source at once =================== *)
(* Neither the check `cls.__df is None` nor the load that follows it is    *)
(* guarded by a lock, so two threads that call the same source run the     *)
(* steps below in any interleaving.  Both have passed the column check.    *)

\* no lookup, no call of utils.py, no updater is under way
NoLookup ==
    /\ pc = "idle"
    /\ df = EmptyTable
    /\ df_in = EmptyTable
    /\ df_temp = EmptyTable
    /\ cols = NoMapping
    /\ df_cols = DefaultNames
    /\ i = 0
    /\ out_list = <<>>
    /\ index_list = <<>>
    /\ out_df = <<>>
    /\ result = NoResult
    /\ stdout = <<>>
    /\ log = <<>>
    /\ read = FALSE
    /\ hist = NoHist
    /\ call = NoCall
    /\ ret = NoRet

InitThreads ==
    /\ src \in Sources
    /\ resource \in Resources(src)
    /\ cache = None
    /\ NoLookup
    /\ tpc = [t \in Threads |-> "check"]
    /\ inits = 0
    /\ files = NoFiles
    /\ upd = NoUpd
    /\ master = NoMaster

\* who.py 50-51: the table as read, assigned to the cache before the
\* in-place normalization of lines 52-64
WHO_read(rows) == [loaded |-> TRUE, normalized |-> FALSE, rows |-> rows]

\* what a step of a caller leaves alone: the resource and everything of
\* the single-caller lookups
LookupFrame ==
    UNCHANGED <<src, resource, pc, df, df_in, df_temp, cols, df_cols, i, out_list,
                index_list, out_df, result, stdout, log, read, hist, call, ret,
                files, upd, master>>

\* ssa.py 44, who.py 49, hld.py 61: `if cls.__df is None:`
Check(t) ==
    /\ tpc[t] = "check"
    /\ tpc' = [tpc EXCEPT ![t] = IF is_None(cache) THEN "read" ELSE "match"]
    /\ UNCHANGED <<cache, inits>>
    /\ LookupFrame

\* ssa.py 45, who.py 50-51, hld.py 63-79: read the file and assign the
\* table to the class attribute; a failed read ends the call
Read(t) ==
    /\ tpc[t] = "read"
    /\ IF resource.kind # "ok"
       THEN /\ tpc' = [tpc EXCEPT ![t] = "done"]
            /\ UNCHANGED <<cache, inits>>
       ELSE /\ inits' = inits + 1
            /\ cache' = CASE src = "ssa" -> SSA_load(resource.rows)
                          [] src = "who" -> WHO_read(resource.rows)
                          [] src = "hld" -> HLD_read(resource.rows)
            /\ tpc' = [tpc EXCEPT ![t] =
                          IF src = "ssa" THEN "match"
                          ELSE IF src = "hld" /\ Len(resource.rows) = 0 THEN "done"
                          ELSE "normalize"]
    /\ LookupFrame

\* who.py 52-64, hld.py 82-106: the normalization works on whatever table
\* the class attribute holds by now; on a table the other thread has
\* normalized already its first column lookup raises KeyError
Normalize(t) ==
    /\ tpc[t] = "normalize"
    /\ IF cache.normalized
       THEN /\ tpc' = [tpc EXCEPT ![t] = "done"]
            /\ UNCHANGED cache
       ELSE /\ cache' = IF src = "who" THEN WHO_load(cache.rows)
                                       ELSE HLD_normalize(cache.rows)
            /\ tpc' = [tpc EXCEPT ![t] = "match"]
    /\ UNCHANGED inits
    /\ LookupFrame

\* the per-row loop against the cached table (the steps of Spec)
Match(t) ==
    /\ tpc[t] = "match"
    /\ tpc' = [tpc EXCEPT ![t] = "done"]
    /\ UNCHANGED <<cache, inits>>
    /\ LookupFrame

NextThreads ==
    \/ \E t \in Threads : Check(t)
    \/ \E t \in Threads : Read(t)
    \/ \E t \in Threads : Normalize(t)
    \/ \E t \in Threads : Match(t)

SpecThreads == InitThreads /\ [][NextThreads]_vars

\* C23: when two callers make their first call to one source at the same
\* time, a freshly read table is assigned to the cache at most once, and a
\* caller that starts matching finds the cache loaded and normalized.
C23_InitializedOnceAndNormalized ==
    /\ inits <= 1
    /\ \A t \in Threads : tpc[t] = "match" => cache.loaded /\ cache.normalized

(* =================== the caller's table after a call =================== *)
\* C24: when a call of lost_years_ssa, lost_years_who or lost_years_hld has
\* ended, by returning or by raising, the caller's table has the column
\* names, in the same order, and the values it had when the call began.
C24_CallerTableUnchanged ==
    pc = "done" => (df.cols = df_in.cols /\ df.rows = df_in.rows)

(* ===================== the WHO age-group codes ========================= *)
\* the code is a range AGE<a>-<b> of two numbers
IsRanged(ag) ==
    \E a \in 0..99, b \in 0..99 : ag = "AGE" \o format_d(a) \o "-" \o format_d(b)

RangeStart(ag) ==
    CHOOSE a \in 0..99 : \E b \in 0..99 : ag = "AGE" \o format_d(a) \o "-" \o format_d(b)

\* C25: convert_agegroup returns 100 for "AGE100+", 85 for "AGE85PLUS", 1 for
\* "AGELT1", a for a ranged code "AGE<a>-<b>", and 0 for every other code.
C25_ConvertAgegroup ==
    (call.fn = "convert_agegroup" /\ ret.status = "returned") =>
        ret.value = CASE call.ag = "AGE100+" -> 100
                      [] call.ag = "AGE85PLUS" -> 85
                      [] call.ag = "AGELT1" -> 1
                      [] OTHER -> IF IsRanged(call.ag) THEN RangeStart(call.ag) ELSE 0

(* ====================== the data updaters (data/) ====================== *)
(* One call of SSADataUpdater.save_ssa_data, of SSADataUpdater             *)
(* .update_ssa_data or of MasterDataUpdater.update_all, in the steps of    *)
(* the code.  The scrapers and the WHO and HLD updaters reach out to the   *)
(* network: each is modelled by what it hands back.  A write to the data   *)
(* directory succeeds or raises.                                           *)

\* what is in the data directory before the call
OldFile == "old rows"
Directories == [FileNames -> {NoFile, OldFile}]

\* update_ssa_data.py 171-263: a scraper returns None or a frame of at
\* least one row with the columns age and year; a caller of save_ssa_data
\* may pass None, an empty frame, or a frame without the column year
Frames == {NoData, "empty", "rows of the caller", "rows without year"}
Yields(source) == {NoData, "rows of " \o source}

has_rows(d) == d \notin {NoData, "empty"}
has_year(d) == d # "rows without year"

InitData ==
    /\ src = "ssa"
    /\ resource = [kind |-> "missing", rows |-> <<>>]
    /\ cache = None
    /\ NoLookup
    /\ tpc = NoThreads
    /\ inits = 0
    /\ files \in Directories
    /\ upd = NoUpd
    /\ master = NoMaster

\* what a step of an updater leaves alone
UpdaterFrame ==
    UNCHANGED <<src, resource, cache, pc, df, df_in, df_temp, cols, df_cols, i,
                out_list, index_list, out_df, result, stdout, log, read, hist, call,
                ret, tpc, inits>>

Idle == upd.pc = "idle" /\ master.pc = "idle"

\* update_ssa_data.py 487: save_ssa_data(df, overwrite)
CallSave(d, ow) ==
    /\ Idle
    /\ upd' = [NoUpd EXCEPT !.fn = "save_ssa_data", !.pc = "save", !.data = d,
                            !.overwrite = ow, !.before = files]
    /\ UNCHANGED <<files, master>>
    /\ UpdaterFrame

\* update_ssa_data.py 530: update_ssa_data(overwrite)
CallUpdate(ow) ==
    /\ Idle
    /\ upd' = [NoUpd EXCEPT !.fn = "update_ssa_data", !.pc = "main", !.overwrite = ow,
                            !.before = files]
    /\ UNCHANGED <<files, master>>
    /\ UpdaterFrame

\* `if data is None:` with the test left out: no further source is tried
no_data_never(d) == FALSE

\* update_ssa_data.py 535, 539, 543: `if data is None:`
no_data(d) == d = NoData

Tried(source, d) ==
    [upd EXCEPT !.tried = Append(@, source), !.yielded = Append(@, d), !.data = d]

\* update_ssa_data.py 532-535: data = self.scrape_ssa_table4c6()
ScrapeMain ==
    /\ upd.pc = "main"
    /\ \E d \in Yields("main") :
          upd' = [Tried("main", d) EXCEPT
                     !.pc = IF no_data(d) THEN "alternative" ELSE "save"]
    /\ UNCHANGED <<files, master>>
    /\ UpdaterFrame

\* update_ssa_data.py 536-539: data = self.try_alternative_ssa_sources()
TryAlternative ==
    /\ upd.pc = "alternative"
    /\ \E d \in Yields("alternative") :
          upd' = [Tried("alternative", d) EXCEPT
                     !.pc = IF no_data(d) THEN "selenium" ELSE "save"]
    /\ UNCHANGED <<files, master>>
    /\ UpdaterFrame

\* update_ssa_data.py 540-548: data = self.try_selenium_scraping(), and
\* `return False` when it has none either
TrySelenium ==
    /\ upd.pc = "selenium"
    /\ \E d \in Yields("selenium") :
          upd' = [Tried("selenium", d) EXCEPT
                     !.pc = IF no_data(d) THEN "return" ELSE "save",
                     !.ret = IF no_data(d) THEN "False" ELSE @]
    /\ UNCHANGED <<files, master>>
    /\ UpdaterFrame

\* `output_file.exists() and not overwrite` with the test left out: the
\* file is always written over
keep_existing_never(exists, overwrite) == FALSE

\* update_ssa_data.py 499: `if output_file.exists() and not overwrite:`
keep_existing(exists, overwrite) == exists /\ ~overwrite

Saved(r) == [upd EXCEPT !.pc = "saved", !.saved = [called |-> TRUE, df |-> upd.data, ret |-> r]]

\* update_ssa_data.py 489-508: no data to save, or the choice of the file
\* to write
SaveCheck ==
    /\ upd.pc = "save"
    /\ LET exists == files["ssa.csv"] # NoFile
       IN  upd' = IF ~has_rows(upd.data) THEN Saved("False")
                  ELSE IF keep_existing(exists, upd.overwrite)
                       THEN [upd EXCEPT !.pc = "write_new"]
                  ELSE IF exists THEN [upd EXCEPT !.pc = "backup"]
                  ELSE [upd EXCEPT !.pc = "write"]
    /\ UNCHANGED <<files, master>>
    /\ UpdaterFrame

\* update_ssa_data.py 500-505: df.to_csv(new_file); return True.  A write
\* that raises is caught at 526-528: return False.
WriteNew ==
    /\ upd.pc = "write_new"
    /\ \E ok \in BOOLEAN :
          IF ok
          THEN /\ files' = [files EXCEPT !["ssa-new.csv"] = upd.data]
               /\ upd' = [Saved("True") EXCEPT !.ops = Append(@, "ssa-new.csv")]
          ELSE /\ UNCHANGED files
               /\ upd' = [Saved("False") EXCEPT !.failed = TRUE]
    /\ UNCHANGED master
    /\ UpdaterFrame

\* update_ssa_data.py 508-511: shutil.copy2(output_file, backup_file)
Backup ==
    /\ upd.pc = "backup"
    /\ \E ok \in BOOLEAN :
          IF ok
          THEN /\ files' = [files EXCEPT !["ssa-backup.csv"] = files["ssa.csv"]]
               /\ upd' = [upd EXCEPT !.pc = "write", !.ops = Append(@, "ssa-backup.csv")]
          ELSE /\ UNCHANGED files
               /\ upd' = [Saved("False") EXCEPT !.failed = TRUE]
    /\ UNCHANGED master
    /\ UpdaterFrame

\* update_ssa_data.py 514-528: df.to_csv(output_file), then the summary
\* that reads df['year'] and df['age']; KeyError is caught at 526-528
Write ==
    /\ upd.pc = "write"
    /\ \E ok \in BOOLEAN :
          IF ok
          THEN /\ files' = [files EXCEPT !["ssa.csv"] = upd.data]
               /\ upd' = [Saved(IF has_year(upd.data) THEN "True" ELSE "False")
                             EXCEPT !.ops = Append(@, "ssa.csv")]
          ELSE /\ UNCHANGED files
               /\ upd' = [Saved("False") EXCEPT !.failed = TRUE]
    /\ UNCHANGED master
    /\ UpdaterFrame

\* update_ssa_data.py 505, 524, 528, 550: save_ssa_data returns, and
\* update_ssa_data returns what it returned
ReturnSaved ==
    /\ upd.pc = "saved"
    /\ upd' = [upd EXCEPT !.pc = "return", !.ret = upd.saved.ret]
    /\ UNCHANGED <<files, master>>
    /\ UpdaterFrame

(* ------------------- MasterDataUpdater.update_all ---------------------- *)
UpdaterNames == {"who", "ssa", "hld"}

\* the argument sources: None, or a list of names (its order and its
\* repetitions play no part: the code only tests `in sources`)
Requests ==
    {[given |-> FALSE, names |-> {}]} \cup {[given |-> TRUE, names |-> S] : S \in SUBSET UpdaterNames}

\* update_all_data.py 52-53, 96-97: the updater returns True or False, or
\* raises
Outcomes == {"True", "False", "raised"}

\* self.results[key] = {'success': v, ...}
Put(results, key, v) ==
    [k \in DOMAIN results \cup {key} |-> IF k = key THEN v ELSE results[k]]

\* update_all_data.py 147-155
CallUpdateAll(r) ==
    /\ Idle
    /\ master' = [NoMaster EXCEPT
                     !.pc = "who",
                     !.sources = IF r.given THEN r.names ELSE UpdaterNames]
    /\ UNCHANGED <<files, upd>>
    /\ UpdaterFrame

\* update_all_data.py 54, 76, 98: the key of a source in self.results
ResultKey(name) ==
    CASE name = "who" -> "WHO"
      [] name = "ssa" -> "SSA"
      [] name = "hld" -> "HLD"

Attempt(name, o, next) ==
    [master EXCEPT !.pc = next,
                   !.attempted = Append(@, name),
                   !.outcomes = Append(@, o),
                   !.results = Put(@, ResultKey(name), o = "True")]

\* update_all_data.py 158-159 and 45-65
UpdateWHO ==
    /\ master.pc = "who"
    /\ IF "who" \in master.sources
       THEN \E o \in Outcomes : master' = Attempt("who", o, "ssa")
       ELSE master' = [master EXCEPT !.pc = "ssa"]
    /\ UNCHANGED <<files, upd>>
    /\ UpdaterFrame

\* update_all_data.py 161-162 and 67-75: SSADataUpdater().update_ssa_data()
StartSSA ==
    /\ master.pc = "ssa"
    /\ IF "ssa" \in master.sources
       THEN /\ master' = [master EXCEPT !.pc = "ssa running"]
            /\ upd' = [NoUpd EXCEPT !.fn = "update_ssa_data", !.pc = "main",
                                    !.before = files]
       ELSE /\ master' = [master EXCEPT !.pc = "hld"]
            /\ UNCHANGED upd
    /\ UNCHANGED files
    /\ UpdaterFrame

\* update_all_data.py 75-80: the result of update_ssa_data is recorded
EndSSA ==
    /\ master.pc = "ssa running" /\ upd.pc = "return"
    /\ master' = Attempt("ssa", upd.ret, "hld")
    /\ upd' = [upd EXCEPT !.pc = "done"]
    /\ UNCHANGED files
    /\ UpdaterFrame

\* update_all_data.py 164-165 and 89-109
UpdateHLD ==
    /\ master.pc = "hld"
    /\ IF "hld" \in master.sources
       THEN \E o \in Outcomes : master' = Attempt("hld", o, "summary")
       ELSE master' = [master EXCEPT !.pc = "summary"]
    /\ UNCHANGED <<files, upd>>
    /\ UpdaterFrame

\* update_all_data.py 124-134
success_count(results) == Cardinality({k \in DOMAIN results : results[k]})
total_count(results) == Cardinality(DOMAIN results)

\* `success_count == total_count` as `success_count > 0`: one success is
\* enough
any_succeeded(results) == success_count(results) > 0

\* update_all_data.py 168-170: return success_count == total_count
all_succeeded(results) == success_count(results) = total_count(results)

\* update_all_data.py 167-170
Summary ==
    /\ master.pc = "summary"
    /\ master' = [master EXCEPT
                     !.pc = "done",
                     !.ret = IF all_succeeded(master.results) THEN "True" ELSE "False"]
    /\ UNCHANGED <<files, upd>>
    /\ UpdaterFrame

NextData ==
    \/ \E d \in Frames, ow \in BOOLEAN : CallSave(d, ow)
    \/ \E ow \in BOOLEAN : CallUpdate(ow)
    \/ \E r \in Requests : CallUpdateAll(r)
    \/ ScrapeMain
    \/ TryAlternative
    \/ TrySelenium
    \/ SaveCheck
    \/ WriteNew
    \/ Backup
    \/ Write
    \/ ReturnSaved
    \/ UpdateWHO
    \/ StartSSA
    \/ EndSSA
    \/ UpdateHLD
    \/ Summary

SpecData == InitData /\ [][NextData]_vars

(* ================== what the updaters write and return ================= *)
\* ssa.csv was there when the call began
Existed == upd.before["ssa.csv"] # NoFile

C27_SourcesInOrder ==
    upd.fn = "update_ssa_data" =>
        LET n == Len(upd.tried)
            none == \A k \in 1..n : upd.yielded[k] = NoData
        IN  /\ upd.tried = SubSeq(<<"main", "alternative", "selenium">>, 1, n)
            /\ \A k \in 1..(n - 1) : upd.yielded[k] = NoData
            /\ upd.pc \in {"save", "write_new", "backup", "write", "saved"} => ~none
            /\ upd.pc \in {"return", "done"} =>
                  IF none
                  THEN /\ n = 3
                       /\ upd.ret = "False"
                       /\ ~upd.saved.called
                       /\ files = upd.before
                  ELSE /\ upd.saved.called
                       /\ upd.saved.df = upd.yielded[n]
                       /\ upd.ret = upd.saved.ret

C27_Witness ==
    /\ upd.fn = "update_ssa_data" /\ upd.pc = "return"
    /\ upd.yielded = <<NoData, "rows of alternative">>
    /\ upd.saved.df = "rows of alternative"
    /\ upd.ret = "True"

\* C28: when update_all has returned, the sources attempted are the
\* requested ones among who, ssa, hld, in that order, whatever the earlier
\* updaters returned or raised; the results hold one entry per attempted
\* source; and the value returned is True exactly when every attempted
\* updater returned True.
C28_UpdateAllAttemptsEach ==
    master.pc = "done" =>
        LET Requested(name) == name \in master.sources
            n == Len(master.attempted)
        IN  /\ master.attempted = SelectSeq(<<"who", "ssa", "hld">>, Requested)
            /\ Len(master.outcomes) = n
            /\ Cardinality(DOMAIN master.results) = n
            /\ \A k \in 1..n :
                  /\ ResultKey(master.attempted[k]) \in DOMAIN master.results
                  /\ master.results[ResultKey(master.attempted[k])]
                        = (master.outcomes[k] = "True")
            /\ master.ret \in {"True", "False"}
            /\ (master.ret = "True") <=> (\A k \in 1..n : master.outcomes[k] = "True")

C28_Witness ==
    /\ master.pc = "done"
    /\ master.sources = UpdaterNames
    /\ master.attempted = <<"who", "ssa", "hld">>
    /\ master.outcomes[1] = "raised"
    /\ master.outcomes[3] = "True"
    /\ master.ret = "False"

====
